---- MODULE Spec2Model ----
(***************************************************************************)
(* LLM gateway of KusiPublisher: LLMManager.generate_content               *)
(* (backend/api/llm.py), its response cache and its retry loop.            *)
(*                                                                         *)
(* A generate call is modelled by its suspension points: the provider      *)
(* request (client.post) and the retry sleep (asyncio.sleep).  Everything  *)
(* between two suspension points runs without interleaving on the event    *)
(* loop and is one action.                                                 *)
(***************************************************************************)
EXTENDS Integers, Sequences, FiniteSets, TLC

VARIABLES
    api_key,          \* self.providers[p]["api_key"] is set (truthy), per registered provider
    active_provider,  \* self.active_provider
    cache,            \* self.cache: cache key -> text
    created_at,       \* history: the time at which each cache entry was stored
    now,              \* wall-clock time, in seconds
    task,             \* per caller: the generate_content call it is awaiting
    switch_result,    \* the last response of the POST /llm/switch route
    val,              \* the text and the response under validation, and the verdict
    hcache,           \* Humanizer._cache: cache key -> (data, timestamp)
    got,              \* the last _get_cache or _set_cache call and what it returned
    hum,              \* per caller: the humanize call it is awaiting
    batch,            \* the humanize_batch call: contents, position, results
    ext               \* the response under extraction, and what was extracted

\* The state of the gateway, and the state outside it.
gateway == <<api_key, active_provider, cache, created_at, now, task>>
rest == <<switch_result, val, hcache, got, hum, batch, ext>>

vars == <<gateway, rest>>

----------------------------------------------------------------------------
(* Bounds of the model *)

MaxNow == 5400
TickSeconds == 1800

(* Program constants *)

\* A mutation of max_retries: one attempt too many.
max_retries_plus_one == 5 + 1

max_retries == 5
base_delay == 3
prefix_len == 100
cache_ttl == 3600

----------------------------------------------------------------------------
(* Construction: LLMManager.__init__ *)

ProviderNames == {"gemini", "openai", "anthropic"}

\* Values of ACTIVE_LLM_PROVIDER in the environment; "mistral" is a name the
\* registry does not hold.
EnvActive == ProviderNames \cup {"mistral"}

\* Which credentials the environment sets: all of them, or none.
EnvKeys == {[p \in ProviderNames |-> TRUE], [p \in ProviderNames |-> FALSE]}

None == "None"

\* self.providers.get(name)
ProvidersGet(name) == IF name \in ProviderNames THEN name ELSE None

----------------------------------------------------------------------------
(* Requests *)

Rep(ch, n) == [i \in 1..n |-> ch]

\* Two prompts that agree on their first 100 characters, one that differs
\* from them at character 100, and a short one.
PromptA == Rep("a", prefix_len) \o <<"x">>
PromptB == Rep("a", prefix_len) \o <<"y">>
PromptC == Rep("a", prefix_len - 1) \o <<"x">>
PromptD == <<"a", "x">>

\* A short prompt that ends like a key: "ax:2000"
PromptColon == <<"a", "x", ":", "2", "0", "0", "0">>

Requests ==
    { [prompt |-> PromptA, max_tokens |-> 1000, temperature |-> "0.7"],
      [prompt |-> PromptB, max_tokens |-> 1000, temperature |-> "0.7"],
      [prompt |-> PromptC, max_tokens |-> 1000, temperature |-> "0.7"],
      [prompt |-> PromptD, max_tokens |-> 2000, temperature |-> "0.3"] }

Min(a, b) == IF a < b THEN a ELSE b

\* A mutation of Prefix: the whole prompt.
PrefixWholePrompt(prompt) == prompt

\* prompt[:100]
Prefix(prompt) == SubSeq(prompt, 1, Min(prefix_len, Len(prompt)))

\* str(n) of a natural number
RECURSIVE Digits(_)
Digits(n) ==
    IF n < 10 THEN <<<<"0","1","2","3","4","5","6","7","8","9">>[n + 1]>>
    ELSE Append(Digits(n \div 10), <<"0","1","2","3","4","5","6","7","8","9">>[(n % 10) + 1])

\* f"{self.active_provider}:{prompt[:100]}:{max_tokens}:{temperature}": the
\* characters of the key, the provider name and the temperature each as one
\* symbol (neither holds a ":")
CacheKey(active, req) ==
    <<active, ":">> \o Prefix(req.prompt) \o <<":">> \o Digits(req.max_tokens)
        \o <<":", req.temperature>>

----------------------------------------------------------------------------
(* What a provider request can come back with *)

Texts == {"T1", "T2"}
Statuses == {200, 429, 500, 502, 503}
TransportFailures == {"ReadTimeout", "ConnectError", "ConnectTimeout"}

\* body: "ok" is the provider's success shape (it carries the text), "error"
\* is a JSON error object without it, "notjson" is a body that is not JSON.
\* Providers send the success shape with status 200 only.
ProviderResponses ==
       { [kind |-> "http", status |-> 200, body |-> "ok", text |-> t] : t \in Texts }
  \cup { [kind |-> "http", status |-> s, body |-> b, text |-> ""] :
             s \in Statuses, b \in {"error", "notjson"} }
  \cup { [kind |-> "transport", status |-> 0, body |-> e, text |-> ""] :
             e \in TransportFailures }

\* The class of a provider response, by what the provider sent (not by what
\* the code makes of it).
InputClass(resp) ==
    IF resp.kind = "transport" THEN "transport"
    ELSE IF resp.status >= 500 THEN "5xx"
    ELSE IF resp.status >= 400 THEN "4xx"
    ELSE IF resp.body = "ok" THEN "success"
    ELSE "malformed"

----------------------------------------------------------------------------
(* Outcomes of a call and of one attempt *)

NoOutcome == [kind |-> "none", text |-> "", exc |-> "", status |-> 0, detail |-> "", cause |-> ""]

Returned(text) == [NoOutcome EXCEPT !.kind = "ok", !.text = text]

Raised(exc, status, detail, cause) ==
    [NoOutcome EXCEPT !.kind = "error", !.exc = exc, !.status = status,
                      !.detail = detail, !.cause = cause]

\* The body of the try block for one response, in the branch the request was
\* built in: the text, or the exception raised.
TryBody(branch, resp) ==
    IF resp.kind = "transport" THEN Raised(resp.body, 0, "", "")
    ELSE IF branch = "gemini" THEN
        IF resp.body = "notjson" THEN Raised("JSONDecodeError", 0, "", "")
        ELSE IF resp.status >= 500 THEN Raised("HTTPException", resp.status, "server", "")
        ELSE IF resp.body # "ok" THEN Raised("HTTPException", 400, "client", "")
        ELSE Returned(resp.text)
    ELSE
        IF resp.status >= 400 THEN Raised("HTTPStatusError", resp.status, "", "")
        ELSE IF resp.body = "notjson" THEN Raised("JSONDecodeError", 0, "", "")
        ELSE IF resp.body # "ok" THEN Raised("KeyError", 0, "", "")
        ELSE Returned(resp.text)

\* except (httpx.ReadTimeout, httpx.ConnectError, HTTPException).  In httpx,
\* ConnectTimeout derives from TimeoutException, not from ConnectError.
CaughtExceptions == {"ReadTimeout", "ConnectError", "HTTPException"}

Caught(e) == e.exc \in CaughtExceptions

RetryableStatuses == {500, 503, 504}

\* A mutation of is_retryable: every caught failure is retried.
is_retryable_always(e) == TRUE

is_retryable(e) ==
    IF e.exc = "HTTPException" THEN e.status \in RetryableStatuses ELSE TRUE

\* 2 ** attempt
RECURSIVE Pow2(_)
Pow2(n) == IF n = 0 THEN 1 ELSE 2 * Pow2(n - 1)

delay(attempt) == base_delay * Pow2(attempt)

\* The else branch of the handler: re-raise an HTTPException, wrap the rest.
FinalError(e) ==
    IF e.exc = "HTTPException" THEN e
    ELSE Raised("HTTPException", 504, "gateway_timeout", e.exc)

----------------------------------------------------------------------------
(* Texts.  A text is the sequence of its characters. *)

Whitespace == {" ", "\n", "\t"}

UpperCase == <<"A","B","C","D","E","F","G","H","I","J","K","L","M","N","O","P","Q","R","S","T","U","V","W","X","Y","Z","Á","É","Í","Ó","Ú","Ñ">>
LowerCase == <<"a","b","c","d","e","f","g","h","i","j","k","l","m","n","o","p","q","r","s","t","u","v","w","x","y","z","á","é","í","ó","ú","ñ">>

\* str.lower(), one character
LowerMap == [ch \in {UpperCase[i] : i \in 1..Len(UpperCase)} |->
                LowerCase[CHOOSE i \in 1..Len(UpperCase) : UpperCase[i] = ch]]

Lower(ch) == IF ch \in DOMAIN LowerMap THEN LowerMap[ch] ELSE ch

\* str.lower()
ToLower(s) == [i \in 1..Len(s) |-> Lower(s[i])]

RECURSIVE LStrip(_)
LStrip(s) == IF s # <<>> /\ Head(s) \in Whitespace THEN LStrip(Tail(s)) ELSE s

RECURSIVE RStrip(_)
RStrip(s) ==
    IF s # <<>> /\ s[Len(s)] \in Whitespace THEN RStrip(SubSeq(s, 1, Len(s) - 1)) ELSE s

\* str.strip()
Strip(s) == RStrip(LStrip(s))

\* str.split(): the words between runs of whitespace, in order.  word is the
\* word being read when the scan is at position i.
RECURSIVE SplitFrom(_, _, _)
SplitFrom(s, i, word) ==
    IF i > Len(s) THEN (IF word = <<>> THEN <<>> ELSE <<word>>)
    ELSE IF s[i] \in Whitespace
         THEN (IF word = <<>> THEN <<>> ELSE <<word>>) \o SplitFrom(s, i + 1, <<>>)
         ELSE SplitFrom(s, i + 1, Append(word, s[i]))

Split(s) == SplitFrom(s, 1, <<>>)

\* set(text.lower().split())
WordSet(s) ==
    LET lower == ToLower(s)
        w == Split(lower)
    IN {w[i] : i \in 1..Len(w)}

\* pattern in text
Contains(s, pat) ==
    \E i \in 1..(Len(s) - Len(pat) + 1) : \A j \in 1..Len(pat) : s[i + j - 1] = pat[j]

\* Humanizer.REFUSAL_PATTERNS
REFUSAL_PATTERNS ==
    { <<"l","o"," ","s","i","e","n","t","o">>,
      <<"n","o"," ","p","u","e","d","o">>,
      <<"c","o","m","o"," ","m","o","d","e","l","o">>,
      <<"c","o","m","o"," ","i","a">>,
      <<"c","o","m","o"," ","a","s","i","s","t","e","n","t","e">>,
      <<"n","o"," ","e","s","t","á"," ","p","e","r","m","i","t","i","d","o">>,
      <<"v","a"," ","e","n"," ","c","o","n","t","r","a"," ","d","e">>,
      <<"p","o","l","í","t","i","c","a"," ","d","e"," ","u","s","o">>,
      <<"n","o"," ","s","o","y"," ","c","a","p","a","z">>,
      <<"m","i","s"," ","d","i","r","e","c","t","r","i","c","e","s">>,
      <<"c","o","n","t","e","n","i","d","o"," ","i","n","a","p","r","o","p","i","a","d","o">> }

\* Humanizer.STOPWORDS
STOPWORDS ==
    { <<"e","l">>,
      <<"l","a">>,
      <<"l","o","s">>,
      <<"l","a","s">>,
      <<"u","n">>,
      <<"u","n","a">>,
      <<"u","n","o","s">>,
      <<"u","n","a","s">>,
      <<"d","e">>,
      <<"d","e","l">>,
      <<"a">>,
      <<"a","l">>,
      <<"e","n">>,
      <<"c","o","n">>,
      <<"p","o","r">>,
      <<"p","a","r","a">>,
      <<"y">>,
      <<"o">>,
      <<"p","e","r","o">>,
      <<"s","i">>,
      <<"n","o">>,
      <<"q","u","e">>,
      <<"c","o","m","o">>,
      <<"e","s">>,
      <<"s","o","n">> }

(* The source texts and the candidate texts of the model *)

\* 'El gato come pescado fresco ya' (30 characters)
SourceGato == <<"E","l"," ","g","a","t","o"," ","c","o","m","e"," ","p","e","s","c","a","d","o"," ","f","r","e","s","c","o"," ","y","a">>

\* 'el la de un en al si no' (23 characters)
SourceShortWords == <<"e","l"," ","l","a"," ","d","e"," ","u","n"," ","e","n"," ","a","l"," ","s","i"," ","n","o">>

\* 'el la de un en casa grande' (26 characters)
SourceCasa == <<"e","l"," ","l","a"," ","d","e"," ","u","n"," ","e","n"," ","c","a","s","a"," ","g","r","a","n","d","e">>

\* "I'm sorry, I cannot help with that." (35 characters)
SourceSorry == <<"I","'","m"," ","s","o","r","r","y",","," ","I"," ","c","a","n","n","o","t"," ","h","e","l","p"," ","w","i","t","h"," ","t","h","a","t",".">>

\* 'Mira, el gato come pescado fresco...' (36 characters)
CandRewrite == <<"M","i","r","a",","," ","e","l"," ","g","a","t","o"," ","c","o","m","e"," ","p","e","s","c","a","d","o"," ","f","r","e","s","c","o",".",".",".">>

\* ' <newline>Ya come fresco pescado el GATO<newline>' (33 characters)
CandPadded == <<" ","\n","Y","a"," ","c","o","m","e"," ","f","r","e","s","c","o"," ","p","e","s","c","a","d","o"," ","e","l"," ","G","A","T","O","\n">>

\* 'Lo Siento, NO PUEDO ayudar con eso.' (35 characters)
CandRefusalEs == <<"L","o"," ","S","i","e","n","t","o",","," ","N","O"," ","P","U","E","D","O"," ","a","y","u","d","a","r"," ","c","o","n"," ","e","s","o",".">>

\* "I'm sorry, I cannot help with that." (35 characters)
CandRefusalEn == <<"I","'","m"," ","s","o","r","r","y",","," ","I"," ","c","a","n","n","o","t"," ","h","e","l","p"," ","w","i","t","h"," ","t","h","a","t",".">>

\* 'gato come pesca' (15 characters)
CandHalf == <<"g","a","t","o"," ","c","o","m","e"," ","p","e","s","c","a">>

\* 'el gato come pesc' (17 characters)
CandLen17 == <<"e","l"," ","g","a","t","o"," ","c","o","m","e"," ","p","e","s","c">>

\* 'el gato come fresc' (18 characters)
CandLen18 == <<"e","l"," ","g","a","t","o"," ","c","o","m","e"," ","f","r","e","s","c">>

\* 'El perro duerme mucho en la cama' (32 characters)
CandOtherTopic == <<"E","l"," ","p","e","r","r","o"," ","d","u","e","r","m","e"," ","m","u","c","h","o"," ","e","n"," ","l","a"," ","c","a","m","a">>

\* 'el la de un xx yy zz ww' (23 characters)
CandHalfShortWords == <<"e","l"," ","l","a"," ","d","e"," ","u","n"," ","x","x"," ","y","y"," ","z","z"," ","w","w">>

\* 'el la de un en yy zz ww' (23 characters)
CandMostShortWords == <<"e","l"," ","l","a"," ","d","e"," ","u","n"," ","e","n"," ","y","y"," ","z","z"," ","w","w">>

\* 'casa grande muy bonita hoy aqui' (31 characters)
CandKeysOnly == <<"c","a","s","a"," ","g","r","a","n","d","e"," ","m","u","y"," ","b","o","n","i","t","a"," ","h","o","y"," ","a","q","u","i">>

\* 'grande casa en un de la' (23 characters)
CandKeysMoved == <<"g","r","a","n","d","e"," ","c","a","s","a"," ","e","n"," ","u","n"," ","d","e"," ","l","a">>

\* '   ' (3 characters)
CandBlank == <<" "," "," ">>

\* '' (0 characters)
CandEmpty == <<>>

\* 'hola mundo' (10 characters)
ShortText == <<"h","o","l","a"," ","m","u","n","d","o">>

\* 'Sin embargo, el gato come pescado fresco ya' (43 characters)
CandConnector == <<"S","i","n"," ","e","m","b","a","r","g","o",","," ","e","l"," ","g","a","t","o"," ","c","o","m","e"," ","p","e","s","c","a","d","o"," ","f","r","e","s","c","o"," ","y","a">>

\* 'El perro duerme mucho en la cama' (32 characters)
SourcePerro == CandOtherTopic

----------------------------------------------------------------------------
(* The humanizer's checks on a provider response *)

\* Humanizer.__init__: the thresholds, in hundredths
min_content_ratio_x100 == 60
min_overlap_x100 == 50
min_key_terms_x100 == 70

\* _extract_key_terms
ExtractKeyTerms(text) == {w \in WordSet(text) : w \notin STOPWORDS /\ Len(w) > 2}

\* len(a & b) / len(b), in hundredths, compared without dividing:
\* Below(a, b, t) is  len(a)/len(b) < t/100
Below(a, b, t) == 100 * a < t * b

Verdict(valid, reason) == [valid |-> valid, reason |-> reason]

\* the last test of _is_valid_output when the source has no key terms
Fallback(common, total) == 100 * common > min_overlap_x100 * total

\* the length test of _is_valid_output
TooShortNever(original, humanized) == FALSE
TooShort(original, humanized) ==
    IF Len(original) > 0
    THEN Below(Len(humanized), Len(original), min_content_ratio_x100)
    ELSE 0 < min_content_ratio_x100

\* the key term test of _is_valid_output
LowKeyTermsAlways(original_keys, humanized_keys) == TRUE
LowKeyTerms(original_keys, humanized_keys) ==
    Below(Cardinality(original_keys \cap humanized_keys),
          Cardinality(original_keys), min_key_terms_x100)

\* _is_valid_output, with the reason it logs ("" where it logs none)
IsValidOutput(original, humanized) ==
    IF humanized = <<>> \/ Strip(humanized) = <<>> THEN Verdict(FALSE, "")
    ELSE IF TooShort(original, humanized) THEN Verdict(FALSE, "too_short")
    ELSE LET original_words == WordSet(original)
             humanized_words == WordSet(humanized)
             common == Cardinality(original_words \cap humanized_words)
             total == Cardinality(original_words)
             original_keys == ExtractKeyTerms(original)
             humanized_keys == ExtractKeyTerms(humanized)
         IN IF original_words = {} THEN Verdict(FALSE, "")
            ELSE IF Below(common, total, min_overlap_x100)
                 THEN Verdict(FALSE, "low_overlap")
            ELSE IF original_keys = {}
                 THEN Verdict(Fallback(common, total), "")
            ELSE IF LowKeyTerms(original_keys, humanized_keys)
                 THEN Verdict(FALSE, "low_key_terms")
            ELSE Verdict(TRUE, "")

\* the refusal test of _humanize_with_llm
Refused(response) ==
    LET response_lower == ToLower(response)
    IN \E pat \in REFUSAL_PATTERNS : Contains(response_lower, pat)

\* _humanize_with_llm after the gateway returned response: the text it returns
\* or the ValueError it raises
CheckResponse(response) ==
    IF Strip(response) = <<>>
    THEN [exc |-> "LLM returned empty or invalid response", text |-> <<>>]
    ELSE IF Refused(response)
    THEN [exc |-> "LLM refused to process", text |-> <<>>]
    ELSE [exc |-> None, text |-> Strip(response)]

\* if not self._is_valid_output(text, humanized): raise ValueError(...)
Judged(text, humanized, v) ==
    IF v.valid
    THEN [accepted |-> TRUE, reason |-> None, tag |-> "", humanized |-> humanized]
    ELSE [accepted |-> FALSE, reason |-> "LLM output invalid or too short",
          tag |-> v.reason, humanized |-> text]

\* r is what _humanize_with_llm gave
Checked(text, r) ==
    IF r.exc # None
    THEN [accepted |-> FALSE, reason |-> r.exc, tag |-> "", humanized |-> text]
    ELSE Judged(text, r.text, IsValidOutput(text, r.text))

\* the try body of humanize from the gateway's response to the validation:
\* the humanized text it goes on with, or the message of the exception raised
Validate(text, response) == Checked(text, CheckResponse(response))

----------------------------------------------------------------------------
(* Callers and their calls *)

Callers == {"c1", "c2", "c3"}

IdleTask ==
    [ pc |-> "idle", request |-> [prompt |-> <<>>, max_tokens |-> 0, temperature |-> ""],
      cache_key |-> <<>>, provider |-> None, branch |-> None,
      attempt |-> 0, calls |-> 0, sleeps |-> <<>>, seen |-> {},
      outcome |-> NoOutcome ]

\* The top of loop iteration n, up to the first suspension point: the branch
\* is chosen by the live self.active_provider; a provider with no branch
\* leaves content unbound, and line 81 raises UnboundLocalError.  When
\* range(max_retries) is used up the loop ends, and so does the function,
\* without a return statement.
Iteration(t, n) ==
    IF n >= max_retries
    THEN [t EXCEPT !.pc = "done", !.outcome = NoOutcome]
    ELSE IF active_provider \in {"gemini", "openai"}
    THEN [t EXCEPT !.pc = "awaiting", !.attempt = n, !.branch = active_provider,
                   !.calls = @ + 1]
    ELSE [t EXCEPT !.pc = "done", !.attempt = n,
                   !.outcome = Raised("UnboundLocalError", 0, "", "")]

\* A mutation of CacheHit: the lookup never finds an entry.
CacheNeverHit(key) == FALSE

\* cache_key in self.cache
CacheHit(key) == key \in DOMAIN cache

\* A mutation of Store: nothing is written.
StoreNothing(c, key, text) == c

\* A mutation of Store: the text goes under the empty key.
StoreUnderEmptyKey(c, key, text) == (<<>> :> text) @@ c

\* self.cache[cache_key] = content
Store(c, key, text) == (key :> text) @@ c

\* A mutation of CacheAfter: the outcome is stored whether or not it is a text.
CacheAfterAnyOutcome(c, key, r) == Store(c, key, r.text)

\* Lines 80-82: only a text that the try block produced reaches the cache.
CacheAfter(c, key, r) == IF r.kind = "ok" THEN Store(c, key, r.text) ELSE c

\* A mutation of NotConfigured: only a missing registry entry is noticed.
NotConfiguredIfMissing(provider) == provider = None

\* not provider or not provider["api_key"]
NotConfigured(provider) == provider = None \/ ~api_key[provider]

\* A mutation of MayRetry: the last attempt is retried too.
MayRetryLastAttempt(attempt) == attempt < max_retries

\* attempt < max_retries - 1
MayRetry(attempt) == attempt < max_retries - 1

\* generate_content(req), from its entry to its first suspension point: the
\* call it leaves.
CallEntry(req) ==
    LET key == CacheKey(active_provider, req)
        provider == ProvidersGet(active_provider)
        t0 == [IdleTask EXCEPT !.request = req, !.cache_key = key]
    IN IF CacheHit(key)
       THEN [t0 EXCEPT !.pc = "done", !.outcome = Returned(cache[key])]
       ELSE IF NotConfigured(provider)
       THEN [t0 EXCEPT !.pc = "done", !.outcome = Raised("ValueError", 0, "", "")]
       ELSE Iteration([t0 EXCEPT !.provider = provider], 0)

Call(c, req) ==
    /\ task[c].pc \in {"idle", "done"}
    /\ task' = [task EXCEPT ![c] = CallEntry(req)]
    /\ UNCHANGED <<api_key, active_provider, cache, created_at, now>>

\* The provider request of caller c completes with resp: the rest of the try
\* block and the except handler.
Respond(c, resp) ==
    /\ task[c].pc = "awaiting"
    /\ LET t == [task[c] EXCEPT !.seen = @ \cup {InputClass(resp)}]
           r == TryBody(t.branch, resp)
       IN /\ cache' = CacheAfter(cache, t.cache_key, r)
          /\ created_at' = IF r.kind = "ok" THEN Store(created_at, t.cache_key, now)
                                            ELSE created_at
          /\ task' = [task EXCEPT ![c] =
                IF r.kind = "ok" THEN [t EXCEPT !.pc = "done", !.outcome = r]
                ELSE IF ~Caught(r) THEN [t EXCEPT !.pc = "done", !.outcome = r]
                ELSE IF is_retryable(r) /\ MayRetry(t.attempt)
                THEN [t EXCEPT !.pc = "sleeping",
                               !.sleeps = Append(@, delay(t.attempt))]
                ELSE [t EXCEPT !.pc = "done", !.outcome = FinalError(r)]]
    /\ UNCHANGED <<api_key, active_provider, now>>

\* asyncio.sleep returns: the next iteration of the loop.
Wake(c) ==
    /\ task[c].pc = "sleeping"
    /\ task' = [task EXCEPT ![c] = Iteration(task[c], task[c].attempt + 1)]
    /\ UNCHANGED <<api_key, active_provider, cache, created_at, now>>

\* Time passes.
Tick ==
    /\ now + TickSeconds <= MaxNow
    /\ now' = now + TickSeconds
    /\ UNCHANGED <<api_key, active_provider, cache, created_at, task>>

----------------------------------------------------------------------------
(* The provider switch: POST /llm/switch (main.py) *)

\* The methods of class LLMManager.  analyze_text, switch_provider and
\* get_available_providers are defined inside the body of generate_content,
\* after its loop: they are local functions of that method, not attributes
\* of the class or of its instances.
ManagerMethodsWithSwitch == {"__init__", "generate_content", "switch_provider"}

ManagerMethods == {"__init__", "generate_content"}

NoSwitch == [provider |-> None, status |-> 0, exc |-> None]

\* The body of switch_provider: the new self.active_provider, or ValueError.
SwitchProviderBody(name) ==
    IF name \in ProviderNames
    THEN [active |-> name, exc |-> None]
    ELSE [active |-> active_provider, exc |-> "ValueError"]

\* The route handler: app.state.llm_manager.switch_provider(provider).  The
\* handler turns ValueError into a 400; an AttributeError leaves it uncaught
\* and the framework answers 500.
SwitchRoute(name) ==
    /\ LET r == IF "switch_provider" \in ManagerMethods
                THEN SwitchProviderBody(name)
                ELSE [active |-> active_provider, exc |-> "AttributeError"]
       IN /\ active_provider' = r.active
          /\ switch_result' =
                [provider |-> name, exc |-> r.exc,
                 status |-> IF r.exc = None THEN 200
                            ELSE IF r.exc = "ValueError" THEN 400 ELSE 500]
    /\ UNCHANGED <<api_key, cache, created_at, now, task>>

----------------------------------------------------------------------------
(* The humanizer's cache *)

\* _select_techniques(None), sorted and joined with ","
TechniquesJoined == "conversational_tone,relatability"

\* _cache_key: the content f"{text}:{techniques}:{profile}" whose md5 is the
\* key, for the default techniques and no voice profile.  Distinct contents
\* are taken to have distinct digests, so the content stands for the key.
HCacheKey(text) == text \o <<":", TechniquesJoined, ":">>

\* what humanize returns; humanness_score is left out
HResult(original, humanized, applied, reason) ==
    [original |-> original, humanized |-> humanized, applied |-> applied,
     reason |-> reason]

NoResult == HResult(<<>>, <<>>, FALSE, None)

\* self._cache[key] = (data, timestamp)
Entry(data, timestamp) == [data |-> data, timestamp |-> timestamp]

Without(hc, keys) == [k \in DOMAIN hc \ keys |-> hc[k]]

\* A mutation of Fresh: an entry never expires.
FreshForever(entry, t) == TRUE

\* age < self.cache_ttl
Fresh(entry, t) == t - entry.timestamp < cache_ttl

\* _get_cache at time t: what it returns and the cache it leaves
GetCache(hc, key, t) ==
    IF key \in DOMAIN hc
    THEN IF Fresh(hc[key], t)
         THEN [hit |-> TRUE, data |-> hc[key].data, cache |-> hc]
         ELSE [hit |-> FALSE, data |-> NoResult, cache |-> Without(hc, {key})]
    ELSE [hit |-> FALSE, data |-> NoResult, cache |-> hc]

\* len(self._cache) > 1000
sweep_threshold == 1000

\* _cleanup_cache at time t
CleanupCache(hc, t) ==
    Without(hc, {k \in DOMAIN hc : t - hc[k].timestamp > cache_ttl})

\* _set_cache at time t
SetCache(hc, key, data, t) ==
    LET stored == (key :> Entry(data, t)) @@ hc
    IN IF Cardinality(DOMAIN stored) > sweep_threshold
       THEN CleanupCache(stored, t)
       ELSE stored

\* The texts that fill the cache: "t" followed by the digits of n.
FillerText(n) == <<"t">> \o Digits(n)

FillerResult(n) == HResult(FillerText(n), FillerText(n), TRUE, None)

NoGot == [op |-> "none", key |-> <<>>, hit |-> FALSE, data |-> NoResult,
          found |-> FALSE, age |-> 0]

\* self._get_cache(key), called on its own.  found and age record whether the
\* key had an entry when it was called, and how old the entry was.
HGet(n) ==
    /\ LET key == HCacheKey(FillerText(n))
           r == GetCache(hcache, key, now)
       IN /\ hcache' = r.cache
          /\ got' = [op |-> "get", key |-> key, hit |-> r.hit, data |-> r.data,
                     found |-> key \in DOMAIN hcache,
                     age |-> IF key \in DOMAIN hcache
                             THEN now - hcache[key].timestamp ELSE 0]

\* self._set_cache(key, data), called on its own
HSet(n) ==
    /\ LET key == HCacheKey(FillerText(n))
       IN /\ hcache' = SetCache(hcache, key, FillerResult(n), now)
          /\ got' = [NoGot EXCEPT !.op = "set", !.key = key, !.data = FillerResult(n)]

----------------------------------------------------------------------------
(* humanize *)

\* _post_process: re.sub(r'\bpat\b', repl, text, flags=re.IGNORECASE, count=1)
WordChars ==
    {LowerCase[i] : i \in 1..Len(LowerCase)} \cup {"0","1","2","3","4","5","6","7","8","9","_"}

IsWordChar(ch) == Lower(ch) \in WordChars

\* the pattern matches at position i, between two word boundaries
MatchesAt(s, pat, i) ==
    /\ i + Len(pat) - 1 <= Len(s)
    /\ \A j \in 1..Len(pat) : Lower(s[i + j - 1]) = Lower(pat[j])
    /\ (i = 1 \/ ~IsWordChar(s[i - 1]))
    /\ (i + Len(pat) > Len(s) \/ ~IsWordChar(s[i + Len(pat)]))

ReplaceFirst(s, pat, repl) ==
    IF \E i \in 1..Len(s) : MatchesAt(s, pat, i)
    THEN LET i == CHOOSE i \in 1..Len(s) :
                    MatchesAt(s, pat, i) /\ \A j \in 1..(i - 1) : ~MatchesAt(s, pat, j)
         IN SubSeq(s, 1, i - 1) \o repl \o SubSeq(s, i + Len(pat), Len(s))
    ELSE s

Replacements ==
    << <<<<"E","n"," ","c","o","n","c","l","u","s","i","ó","n">>, <<"A","l"," ","f","i","n","a","l">>>>,
       <<<<"P","o","r"," ","o","t","r","o"," ","l","a","d","o">>, <<"P","e","r","o"," ","m","i","r","a">>>>,
       <<<<"A","d","e","m","á","s">>, <<"Y"," ","e","n","c","i","m","a">>>>,
       <<<<"S","i","n"," ","e","m","b","a","r","g","o">>, <<"P","e","r","o">>>> >>

RECURSIVE PostProcessFrom(_, _)
PostProcessFrom(s, n) ==
    IF n > Len(Replacements) THEN s
    ELSE PostProcessFrom(ReplaceFirst(s, Replacements[n][1], Replacements[n][2]), n + 1)

PostProcess(s) == PostProcessFrom(s, 1)

\* if not text or len(text.strip()) < 20
min_text_len == 20

TooShortText(text) == text = <<>> \/ Len(Strip(text)) < min_text_len

\* The head of the prompt: its first 100 characters ("Reescribe este texto
\* ... Tono deseado: conversacional y au"), which come from the template and
\* the tone hint and hold no character of the text.
PromptHead == Rep("R", prefix_len)

\* The prompt ends with the template's last lines, after the text.
PromptTail == <<"\n">>

\* the generate_content call of _humanize_with_llm: max_tokens=self.max_tokens
\* and the temperature of the default techniques
HumanizeRequest(text) ==
    [prompt |-> PromptHead \o text \o PromptTail, max_tokens |-> 1500, temperature |-> "0.7"]

\* called records whether the call went as far as generate_content.
IdleHum == [pc |-> "idle", text |-> <<>>, result |-> NoResult, raised |-> None,
            called |-> FALSE]

\* The subclasses of Exception among what the try block can raise: all of
\* them (asyncio.CancelledError, a BaseException, is not raised here).
ExceptionSubclasses ==
    {"ValueError", "HTTPException", "HTTPStatusError", "JSONDecodeError", "KeyError",
     "UnboundLocalError", "ReadTimeout", "ConnectError", "ConnectTimeout"}

\* A mutation of CaughtByHumanize: only ValueError is caught.
CaughtValueErrorOnly(exc) == exc = "ValueError"

\* except Exception as e
CaughtByHumanize(exc) == exc \in ExceptionSubclasses

\* the failure result of the except block
Failed(text, reason) == HResult(text, text, FALSE, reason)

\* the success path of humanize: the result is stored and returned
Accepted(h, result, hc, t) ==
    [hum |-> [h EXCEPT !.pc = "done", !.result = result],
     cache |-> SetCache(hc, HCacheKey(h.text), result, t)]

\* humanize after the validation gave v
Validated(h, v, hc, t) ==
    IF v.accepted
    THEN Accepted(h, HResult(h.text, PostProcess(v.humanized), TRUE, None), hc, t)
    ELSE [hum |-> [h EXCEPT !.pc = "done", !.result = Failed(h.text, v.reason)],
          cache |-> hc]

\* humanize after generate_content ended with outcome: the rest of the try
\* block and the except block.  Gives the call's end and the cache it leaves.
Finish(h, outcome, hc, t) ==
    IF outcome.kind = "error"
    THEN IF CaughtByHumanize(outcome.exc)
         THEN [hum |-> [h EXCEPT !.pc = "done", !.result = Failed(h.text, outcome.exc)],
               cache |-> hc]
         ELSE [hum |-> [h EXCEPT !.pc = "done", !.raised = outcome.exc], cache |-> hc]
    ELSE Validated(h, Validate(h.text, outcome.text), hc, t)

\* the humanize call of caller c ends as f says
Ends(c, f) == hum' = [hum EXCEPT ![c] = f.hum] /\ hcache' = f.cache

\* After a step of the gateway call of caller c: humanize goes on if the call
\* has ended, and keeps waiting otherwise.
Continue(c, h, hc) ==
    IF task'[c].pc = "done"
    THEN Ends(c, Finish(h, task'[c].outcome, hc, now))
    ELSE hum' = [hum EXCEPT ![c] = [h EXCEPT !.pc = "waiting"]] /\ hcache' = hc

\* What one humanize call leaves when it reaches its first suspension point
\* or its end: its own state, the gateway call it made (called tells whether
\* it made one) and the cache.
Left(h, called, call, hc) == [hum |-> h, called |-> called, task |-> call, cache |-> hc]

\* the gateway call ended at once and humanize ended as f says
EndedAtOnce(f, call) == Left(f.hum, TRUE, call, f.cache)

\* humanize after generate_content reached its first suspension point or its
\* end, leaving call
AfterCallEntry(h, call, hc, t) ==
    IF call.pc = "done"
    THEN EndedAtOnce(Finish(h, call.outcome, hc, t), call)
    ELSE Left([h EXCEPT !.pc = "waiting"], TRUE, call, hc)

\* humanize after the cache lookup gave cached
AfterLookup(h, cached, t) ==
    IF cached.hit
    THEN Left([h EXCEPT !.pc = "done", !.result = cached.data], FALSE, IdleTask, cached.cache)
    ELSE AfterCallEntry([h EXCEPT !.called = TRUE], CallEntry(HumanizeRequest(h.text)),
                        cached.cache, t)

\* humanize(text) at time t with the cache hc, from its entry to its first
\* suspension point
Enter(text, hc, t) ==
    IF TooShortText(text)
    THEN Left([IdleHum EXCEPT !.text = text, !.pc = "done",
                              !.result = Failed(text, "Text too short")],
              FALSE, IdleTask, hc)
    ELSE AfterLookup([IdleHum EXCEPT !.text = text], GetCache(hc, HCacheKey(text), t), t)

\* The calls and the cache st after the humanize call of caller c made the
\* step e.
Entered(st, c, e) ==
    [task |-> IF e.called THEN [st.task EXCEPT ![c] = e.task] ELSE st.task,
     hum |-> [st.hum EXCEPT ![c] = e.hum],
     cache |-> e.cache]

\* the step leaves the calls and the cache st
Becomes(st) == task' = st.task /\ hum' = st.hum /\ hcache' = st.cache

\* await humanize(text) by caller c, up to its first suspension point
Humanize(c, text) ==
    /\ hum[c].pc \in {"idle", "done"}
    /\ task[c].pc \in {"idle", "done"}
    /\ batch.pc # "running"
    /\ Becomes(Entered([task |-> task, hum |-> hum, cache |-> hcache], c,
                       Enter(text, hcache, now)))
    /\ UNCHANGED <<api_key, active_provider, cache, created_at, now>>
    /\ UNCHANGED <<switch_result, val, got, batch, ext>>

\* The provider request of the humanize call of caller c completes.
HRespond(c, resp) ==
    /\ hum[c].pc = "waiting"
    /\ Respond(c, resp)
    /\ Continue(c, hum[c], hcache)
    /\ UNCHANGED <<switch_result, val, got, batch, ext>>

\* The sleep of the gateway call of caller c ends.
HWake(c) ==
    /\ hum[c].pc = "waiting"
    /\ Wake(c)
    /\ Continue(c, hum[c], hcache)
    /\ UNCHANGED <<switch_result, val, got, batch, ext>>

----------------------------------------------------------------------------
(* humanize_batch *)

\* The task of each item, by its index in contents.
BatchCallers == <<"c1", "c2", "c3">>

IdleBatch == [pc |-> "idle", contents |-> <<>>, processed |-> <<>>]

\* asyncio.gather starts the tasks in the order of contents; each runs up to
\* its first suspension point before the next starts, and before any
\* provider request completes.  st holds the calls and the cache so far.
RECURSIVE StartItems(_, _, _)
StartItems(contents, i, st) ==
    IF i > Len(contents) THEN st
    ELSE StartItems(contents, i + 1,
            Entered(st, BatchCallers[i], Enter(contents[i], st.cache, now)))

\* humanize_batch(contents), up to await asyncio.gather(...)
HumanizeBatch(contents) ==
    /\ batch.pc # "running"
    /\ \A c \in Callers : hum[c].pc # "waiting"
    /\ Becomes(StartItems(contents, 1, [task |-> task, hum |-> hum, cache |-> hcache]))
    /\ batch' = [pc |-> "running", contents |-> contents, processed |-> <<>>]
    /\ UNCHANGED <<api_key, active_provider, cache, created_at, now>>
    /\ UNCHANGED <<switch_result, val, got, ext>>

\* A mutation of Processed: the results come in the order the calls ended
\* in, failures last.
ProcessedFailuresLast(contents, results) ==
    LET n == Len(contents)
        ok == {i \in 1..n : results[i].raised = None /\ results[i].result.applied}
        rank(i) == IF i \in ok THEN Cardinality({j \in ok : j < i}) + 1
                   ELSE Cardinality(ok) + Cardinality({j \in (1..n) \ ok : j < i}) + 1
    IN [k \in 1..n |-> LET i == CHOOSE i \in 1..n : rank(i) = k IN results[i].result]

\* the loop over enumerate(results): results[i] is the end of item i's call
Processed(contents, results) ==
    [i \in 1..Len(contents) |->
        IF results[i].raised # None
        THEN Failed(contents[i], results[i].raised)
        ELSE results[i].result]

\* asyncio.gather returns: the rest of humanize_batch
BatchCollect ==
    /\ batch.pc = "running"
    /\ \A i \in 1..Len(batch.contents) : hum[BatchCallers[i]].pc = "done"
    /\ batch' = [batch EXCEPT !.pc = "done",
                    !.processed = Processed(batch.contents,
                        [i \in 1..Len(batch.contents) |-> hum[BatchCallers[i]]])]
    /\ UNCHANGED <<gateway, switch_result, val, hcache, got, hum, ext>>

----------------------------------------------------------------------------
(* The validation of one response *)

NoVerdict == [accepted |-> FALSE, reason |-> None, tag |-> "", humanized |-> <<>>]
NoVal == [op |-> "off", text |-> <<>>, response |-> <<>>, out |-> NoVerdict]

ValSources == {SourceGato, SourceShortWords, SourceCasa, SourceSorry}

ValCandidates ==
    {CandRewrite, CandPadded, CandRefusalEs, CandRefusalEn, CandHalf, CandLen17,
     CandLen18, CandOtherTopic, CandHalfShortWords, CandMostShortWords,
     CandKeysOnly, CandKeysMoved, CandBlank, CandEmpty}

\* humanize, from the response of the gateway to the end of the validation
RunValidate ==
    /\ val.op = "input"
    /\ val' = [val EXCEPT !.op = "validate", !.out = Validate(val.text, val.response)]

\* _is_valid_output(original, humanized) on its own
RunIsValidOutput ==
    /\ val.op = "input"
    /\ LET v == IsValidOutput(val.text, val.response)
       IN val' = [val EXCEPT !.op = "is_valid_output",
                     !.out = [accepted |-> v.valid, reason |-> None, tag |-> v.reason,
                              humanized |-> val.response]]

----------------------------------------------------------------------------
(* The extraction of a JSON object from a response *)

\* str.startswith, str.endswith
StartsWith(s, pat) == Len(pat) <= Len(s) /\ \A j \in 1..Len(pat) : s[j] = pat[j]
EndsWith(s, pat) ==
    Len(pat) <= Len(s) /\ \A j \in 1..Len(pat) : s[Len(s) - Len(pat) + j] = pat[j]

\* the pattern stands at position i of the text
At(s, pat, i) ==
    i + Len(pat) - 1 <= Len(s) /\ \A j \in 1..Len(pat) : s[i + j - 1] = pat[j]

\* str.find from a position and str.rfind, counting positions from 1; 0 when
\* the pattern does not occur
Find(s, pat, from) ==
    IF \E i \in from..Len(s) : At(s, pat, i)
    THEN CHOOSE i \in from..Len(s) : At(s, pat, i) /\ \A j \in from..(i - 1) : ~At(s, pat, j)
    ELSE 0

RFind(s, pat) ==
    IF \E i \in 1..Len(s) : At(s, pat, i)
    THEN CHOOSE i \in 1..Len(s) : At(s, pat, i) /\ \A j \in (i + 1)..Len(s) : ~At(s, pat, j)
    ELSE 0

\* The backquote character, which a string of this language cannot hold.
Backquote == "backquote"

Fence == <<Backquote, Backquote, Backquote>>
JsonWord == <<"j","s","o","n">>
JsonFence == Fence \o JsonWord \o <<"\n">>

NoMatch == [found |-> FALSE, group |-> <<>>]
Match(group) == [found |-> TRUE, group |-> group]

\* the match from position a to position b, both outside the group
Between(s, a, skip, b) == IF a = 0 \/ b = 0 THEN NoMatch ELSE Match(SubSeq(s, a + skip, b - 1))

\* re.search(r'```json\n(.*?)```', s, re.DOTALL): group(1) is the text from
\* the first opening fence to the first closing fence after it
FenceClose(s, a) == IF a = 0 THEN 0 ELSE Find(s, Fence, a + Len(JsonFence))
FenceSearch(s) ==
    Between(s, Find(s, JsonFence, 1), Len(JsonFence), FenceClose(s, Find(s, JsonFence, 1)))

\* re.search(r'\{(.*?)\}', s, re.DOTALL): group(1) is the text between the
\* first "{" and the first "}" after it, without the braces
BraceClose(s, a) == IF a = 0 THEN 0 ELSE Find(s, <<"}">>, a + 1)
BraceSearchLazy(s) ==
    Between(s, Find(s, <<"{">>, 1), 1, BraceClose(s, Find(s, <<"{">>, 1)))

\* re.search(r'\{.*\}', s, re.DOTALL): group() is the text from the first
\* "{" to the last "}", with the braces
Span(s, a, b) == IF a = 0 \/ b <= a THEN NoMatch ELSE Match(SubSeq(s, a, b))
BraceSearchGreedy(s) == Span(s, Find(s, <<"{">>, 1), RFind(s, <<"}">>))

\* result[json_start:json_end] with json_start = result.find('{') and
\* json_end = result.rfind('}') + 1, if json_start >= 0 and json_end > json_start
BraceSlice(s) == Span(s, Find(s, <<"{">>, 1), RFind(s, <<"}">>))

\* The values of json.loads: a number, a string, a list or a dict, each with
\* its type.  A dict is the sequence of its (key, value) pairs in insertion
\* order.
JNone == [t |-> "none", v |-> <<>>]
JNum(n) == [t |-> "num", v |-> n]
JStr(s) == [t |-> "str", v |-> s]
JArr(items) == [t |-> "arr", v |-> items]
JObj(members) == [t |-> "obj", v |-> members]

\* d[key] = value
Put(members, key, value) ==
    IF \E i \in 1..Len(members) : members[i][1] = key
    THEN [i \in 1..Len(members) |->
             IF members[i][1] = key THEN <<key, value>> ELSE members[i]]
    ELSE Append(members, <<key, value>>)

\* d.get(key, default)
Get(d, key, default) ==
    IF \E i \in 1..Len(d.v) : d.v[i][1] = key
    THEN d.v[CHOOSE i \in 1..Len(d.v) : d.v[i][1] = key][2]
    ELSE default

DigitChars == <<"0","1","2","3","4","5","6","7","8","9">>
IsDigit(ch) == \E d \in 1..Len(DigitChars) : DigitChars[d] = ch
DigitOf(ch) == (CHOOSE d \in 1..Len(DigitChars) : DigitChars[d] = ch) - 1

RECURSIVE DigitsValue(_)
DigitsValue(s) ==
    IF s = <<>> THEN 0 ELSE DigitsValue(SubSeq(s, 1, Len(s) - 1)) * Len(DigitChars) + DigitOf(s[Len(s)])

\* json.loads over texts of objects, lists, strings without escapes and
\* unsigned integers.  A parse is the value and the position after it.
Unparsed == [ok |-> FALSE, val |-> JNone, next |-> 0]
Parsed(value, next) == [ok |-> TRUE, val |-> value, next |-> next]

RECURSIVE SkipWs(_, _)
SkipWs(s, i) == IF i <= Len(s) /\ s[i] \in Whitespace \cup {"\r"} THEN SkipWs(s, i + 1) ELSE i

\* a string from its opening quote at i to its closing quote at q; a control
\* character inside it is an error
StringAt(s, i, q) ==
    IF q = 0 \/ \E j \in (i + 1)..(q - 1) : s[j] \in {"\n", "\t", "\r"}
    THEN Unparsed
    ELSE Parsed(JStr(SubSeq(s, i + 1, q - 1)), q + 1)

ParseString(s, i) == StringAt(s, i, Find(s, <<"\"">>, i + 1))

RECURSIVE DigitsEnd(_, _)
DigitsEnd(s, i) == IF i < Len(s) /\ IsDigit(s[i + 1]) THEN DigitsEnd(s, i + 1) ELSE i

\* a number from i to e; a leading zero ends the number
NumberAt(s, i, e) ==
    IF s[i] = "0" /\ e > i THEN Unparsed ELSE Parsed(JNum(DigitsValue(SubSeq(s, i, e))), e + 1)

ParseNumber(s, i) == NumberAt(s, i, DigitsEnd(s, i))

RECURSIVE ParseValue(_, _)
RECURSIVE ParseMembers(_, _, _)
RECURSIVE ParseElements(_, _, _)

\* after a member: "," and the next member, or "}"
MemberNext(s, acc, m) ==
    IF m > Len(s) THEN Unparsed
    ELSE IF s[m] = "," THEN ParseMembers(s, SkipWs(s, m + 1), acc)
    ELSE IF s[m] = "}" THEN Parsed(JObj(acc), m + 1)
    ELSE Unparsed

MemberValue(s, key, r, acc) ==
    IF r.ok THEN MemberNext(s, Put(acc, key, r.val), SkipWs(s, r.next)) ELSE Unparsed

MemberColon(s, key, j, acc) ==
    IF j <= Len(s) /\ s[j] = ":"
    THEN MemberValue(s, key, ParseValue(s, SkipWs(s, j + 1)), acc)
    ELSE Unparsed

MemberKey(s, k, acc) ==
    IF k.ok THEN MemberColon(s, k.val.v, SkipWs(s, k.next), acc) ELSE Unparsed

\* the members of a dict from position i, which holds the quote of a key
ParseMembers(s, i, acc) ==
    IF i <= Len(s) /\ s[i] = "\"" THEN MemberKey(s, ParseString(s, i), acc) ELSE Unparsed

\* after an element: "," and the next element, or "]"
ElementNext(s, acc, m) ==
    IF m > Len(s) THEN Unparsed
    ELSE IF s[m] = "," THEN ParseElements(s, SkipWs(s, m + 1), acc)
    ELSE IF s[m] = "]" THEN Parsed(JArr(acc), m + 1)
    ELSE Unparsed

ElementValue(s, r, acc) ==
    IF r.ok THEN ElementNext(s, Append(acc, r.val), SkipWs(s, r.next)) ELSE Unparsed

\* the elements of a list from position i
ParseElements(s, i, acc) == ElementValue(s, ParseValue(s, i), acc)

\* after "{" and after "["
ObjectFrom(s, j) ==
    IF j <= Len(s) /\ s[j] = "}" THEN Parsed(JObj(<<>>), j + 1) ELSE ParseMembers(s, j, <<>>)

ArrayFrom(s, j) ==
    IF j <= Len(s) /\ s[j] = "]" THEN Parsed(JArr(<<>>), j + 1) ELSE ParseElements(s, j, <<>>)

\* the value that starts at position i
ParseValue(s, i) ==
    IF i > Len(s) THEN Unparsed
    ELSE IF s[i] = "{" THEN ObjectFrom(s, SkipWs(s, i + 1))
    ELSE IF s[i] = "[" THEN ArrayFrom(s, SkipWs(s, i + 1))
    ELSE IF s[i] = "\"" THEN ParseString(s, i)
    ELSE IF IsDigit(s[i]) THEN ParseNumber(s, i)
    ELSE Unparsed

\* json.loads: the one value of the text, or JSONDecodeError (ok is FALSE)
Whole(s, r) ==
    IF r.ok /\ SkipWs(s, r.next) > Len(s)
    THEN [ok |-> TRUE, val |-> r.val]
    ELSE [ok |-> FALSE, val |-> JNone]

Loads(s) == Whole(s, ParseValue(s, SkipWs(s, 1)))

\* json.dumps with its default separators
RECURSIVE Dumps(_)
RECURSIVE DumpItems(_, _)
RECURSIVE DumpMembers(_, _)

DumpItems(items, i) ==
    IF i > Len(items) THEN <<>>
    ELSE (IF i > 1 THEN <<",", " ">> ELSE <<>>) \o Dumps(items[i]) \o DumpItems(items, i + 1)

DumpMembers(members, i) ==
    IF i > Len(members) THEN <<>>
    ELSE (IF i > 1 THEN <<",", " ">> ELSE <<>>)
         \o <<"\"">> \o members[i][1] \o <<"\"", ":", " ">> \o Dumps(members[i][2])
         \o DumpMembers(members, i + 1)

Dumps(value) ==
    IF value.t = "num" THEN Digits(value.v)
    ELSE IF value.t = "str" THEN <<"\"">> \o value.v \o <<"\"">>
    ELSE IF value.t = "arr" THEN <<"[">> \o DumpItems(value.v, 1) \o <<"]">>
    ELSE <<"{">> \o DumpMembers(value.v, 1) \o <<"}">>

\* What an extraction leaves: the dict it parsed (or none), the text it
\* gives for the response, the note that goes with it, and the exception
\* that left the function.
Extraction(data, text, note) == [data |-> data, text |-> text, note |-> note, raised |-> None]
Raise(o, exc) == [o EXCEPT !.raised = exc]

\* the keys of the dict the platform prompt asks for
KeyContent == <<"o","p","t","i","m","i","z","e","d","_","c","o","n","t","e","n","t">>
KeyExplanations == <<"e","x","p","l","a","n","a","t","i","o","n","s">>

\* the explanations of optimize_for_platform, each as one symbol
NoteNone == JStr(<<"No se proporcionaron explicaciones.">>)
NoteNoJson == JStr(<<"No se encontró JSON estructurado en la respuesta.">>)
NoteDecode == JStr(<<"Fallo al decodificar JSON">>)
NoteUnexpected == JStr(<<"Error inesperado al procesar">>)

\* optimize_for_platform: the response without the fences that enclose it
DropJson(a) == IF StartsWith(a, JsonWord) THEN Strip(SubSeq(a, Len(JsonWord) + 1, Len(a))) ELSE a

Unfenced(response, st) ==
    IF StartsWith(st, Fence) /\ EndsWith(st, Fence)
    THEN DropJson(Strip(SubSeq(st, Len(Fence) + 1, Len(st) - Len(Fence))))
    ELSE response

Unfence(response) == Unfenced(response, Strip(response))

\* optimize_for_platform: the first parse, of the interior of a fence or of
\* what stands between two braces
FirstRead(rt, d) ==
    IF ~d.ok THEN Extraction(JNone, JStr(rt), NoteDecode)
    ELSE IF d.val.t # "obj" THEN Extraction(JNone, JStr(rt), NoteUnexpected)
    ELSE Extraction(d.val, Get(d.val, KeyContent, JStr(rt)),
                    Get(d.val, KeyExplanations, NoteNone))

FirstMatch(rt, m) == IF m.found THEN m ELSE BraceSearchLazy(rt)

FirstDecoded(rt, m) ==
    IF m.found THEN FirstRead(rt, Loads(m.group)) ELSE Extraction(JNone, JStr(rt), NoteNoJson)

FirstPass(rt) == FirstDecoded(rt, FirstMatch(rt, FenceSearch(rt)))

\* optimize_for_platform: the fields of the dict of the second parse
Took(o, d) ==
    [o EXCEPT !.data = IF o.data.t = "obj" THEN o.data ELSE d,
              !.text = Get(d, KeyContent, o.text),
              !.note = Get(d, KeyExplanations, o.note)]

\* optimized_content.strip() and explanations.strip()
Stripped(o) ==
    IF o.text.t # "str" \/ o.note.t # "str" THEN Raise(o, "AttributeError")
    ELSE [o EXCEPT !.text = JStr(Strip(o.text.v)), !.note = JStr(Strip(o.note.v))]

\* the second parse, of the interior of a fence inside optimized_content
SecondFence(o, group, d) ==
    IF ~d.ok THEN Stripped([o EXCEPT !.text = JStr(Strip(group))])
    ELSE IF d.val.t # "obj" THEN Raise(o, "AttributeError")
    ELSE Stripped(Took(o, d.val))

\* the second parse, of an optimized_content that starts and ends with a brace
SecondBareSkipped(o, d) == Stripped(o)

SecondBare(o, d) == IF d.ok /\ d.val.t = "obj" THEN Stripped(Took(o, d.val)) ELSE Stripped(o)

SecondStr(o, w) ==
    IF w.found THEN SecondFence(o, w.group, Loads(w.group))
    ELSE IF StartsWith(Strip(o.text.v), <<"{">>) /\ EndsWith(Strip(o.text.v), <<"}">>)
         THEN SecondBare(o, Loads(o.text.v))
         ELSE Stripped(o)

SecondPass(o) == IF o.text.t = "str" THEN SecondStr(o, FenceSearch(o.text.v)) ELSE o

\* len(optimized_content)
Measured(o) == IF o.raised = None /\ o.text.t = "num" THEN Raise(o, "TypeError") ELSE o

PlatformExtract(response) == Measured(SecondPass(FirstPass(Unfence(response))))

\* analyze_voice, research_keywords and analyze_text: the parse of the match,
\* or the response under the key named by wrapper
Wrapped(response, wrapper) == Extraction(JNone, JStr(response), JStr(<<wrapper>>))

MatchRead(response, m, d, wrapper) ==
    IF m.found /\ d.ok THEN Extraction(d.val, JNone, JNone) ELSE Wrapped(response, wrapper)

MatchExtract(response, m, wrapper) == MatchRead(response, m, Loads(m.group), wrapper)

Sites == {"optimize_for_platform", "analyze_voice", "research_keywords", "analyze_text"}

Extract(site, response) ==
    CASE site = "optimize_for_platform" -> PlatformExtract(response)
      [] site = "analyze_voice" ->
            MatchExtract(response, BraceSearchGreedy(response), "detailed_analysis")
      [] site = "research_keywords" ->
            MatchExtract(response, BraceSearchGreedy(response), "raw_analysis")
      [] site = "analyze_text" -> MatchExtract(response, BraceSlice(response), "analysis")

\* 'noise {"a": [1,2]} trailing' (27 characters)
RespNoise ==
    <<"n","o","i","s","e"," ","{","\"","a","\"",":"," ","[","1",",","2","]","}"," ","t","r","a","i","l","i","n","g">>

\* '```json\n{"a": 1}\n```' (20 characters)
RespFenced ==
    <<Backquote,Backquote,Backquote,"j","s","o","n","\n","{","\"","a","\"",":"," ","1","}","\n",Backquote,Backquote,Backquote>>

\* 'Aqui: ```json\n{"a": 1}\n``` fin' (30 characters)
RespFenceInText ==
    <<"A","q","u","i",":"," ",Backquote,Backquote,Backquote,"j","s","o","n","\n","{","\"","a","\"",":"," ","1","}","\n",Backquote,Backquote,Backquote," ","f","i","n">>

\* 'hola mundo' (10 characters)
RespPlain ==
    <<"h","o","l","a"," ","m","u","n","d","o">>

\* ' hola \n' (7 characters)
RespPadded ==
    <<" ","h","o","l","a"," ","\n">>

\* '{"a": 1}' (8 characters)
RespBare ==
    <<"{","\"","a","\"",":"," ","1","}">>

\* 'x {a} y' (7 characters)
RespBadBraces ==
    <<"x"," ","{","a","}"," ","y">>

\* 'x ```json\n[1]\n``` y' (19 characters)
RespFencedList ==
    <<"x"," ",Backquote,Backquote,Backquote,"j","s","o","n","\n","[","1","]","\n",Backquote,Backquote,Backquote," ","y">>

\* 'ok ```json\n{"optimized_content": "hi", "explanations": "e"}```' (62 characters)
RespFields ==
    <<"o","k"," ",Backquote,Backquote,Backquote,"j","s","o","n","\n","{","\"","o","p","t","i","m","i","z","e","d","_","c","o","n","t","e","n","t","\"",":"," ","\"","h","i","\"",","," ","\"","e","x","p","l","a","n","a","t","i","o","n","s","\"",":"," ","\"","e","\"","}",Backquote,Backquote,Backquote>>

\* '{"optimized_content": "hi"}' (27 characters)
RespContentOnly ==
    <<"{","\"","o","p","t","i","m","i","z","e","d","_","c","o","n","t","e","n","t","\"",":"," ","\"","h","i","\"","}">>

\* 'x {1} y' (7 characters)
RespBracedNumber ==
    <<"x"," ","{","1","}"," ","y">>

\* '{"a": {"b": 1}}' (15 characters)
RespNested ==
    <<"{","\"","a","\"",":"," ","{","\"","b","\"",":"," ","1","}","}">>

\* '```json\n{a}\n``` x' (17 characters)
RespFencedBad ==
    <<Backquote,Backquote,Backquote,"j","s","o","n","\n","{","a","}","\n",Backquote,Backquote,Backquote," ","x">>

\* '} {' (3 characters)
RespReversed ==
    <<"}"," ","{">>

\* '{"optimized_content": 5}' (24 characters)
RespNumberContent ==
    <<"{","\"","o","p","t","i","m","i","z","e","d","_","c","o","n","t","e","n","t","\"",":"," ","5","}">>

\* 'a {"b": 1} c {"d": 2} e' (23 characters)
RespTwoObjects ==
    <<"a"," ","{","\"","b","\"",":"," ","1","}"," ","c"," ","{","\"","d","\"",":"," ","2","}"," ","e">>

ExtResponses ==
    {RespNoise, RespFenced, RespFenceInText, RespPlain,
     RespPadded, RespBare, RespBadBraces, RespFencedList,
     RespFields, RespContentOnly, RespBracedNumber, RespNested,
     RespFencedBad, RespReversed, RespNumberContent, RespTwoObjects}

NoExtraction == Extraction(JNone, JNone, JNone)
NoExt == [op |-> "off", site |-> "", response |-> <<>>, out |-> NoExtraction,
          again |-> NoExtraction]

\* one call site extracts from the response of the gateway
RunExtract ==
    /\ ext.op = "input"
    /\ ext' = [ext EXCEPT !.op = "extract", !.out = Extract(ext.site, ext.response)]

\* the same call site extracts from the serialized form of the dict it got
RunExtractAgain ==
    /\ ext.op = "extract"
    /\ ext.out.raised = None
    /\ ext.out.data.t = "obj"
    /\ ext' = [ext EXCEPT !.op = "again", !.again = Extract(ext.site, Dumps(ext.out.data))]

----------------------------------------------------------------------------
(* Specifications *)

InitGateway ==
    /\ api_key \in EnvKeys
    /\ active_provider \in EnvActive
    /\ cache = <<>>
    /\ created_at = <<>>
    /\ now = 0
    /\ task = [c \in Callers |-> IdleTask]

InitRest ==
    /\ switch_result = NoSwitch
    /\ val = NoVal
    /\ hcache = <<>>
    /\ got = NoGot
    /\ hum = [c \in Callers |-> IdleHum]
    /\ batch = IdleBatch
    /\ ext = NoExt

Init == InitGateway /\ InitRest

\* One caller, awaiting each call before it makes the next.
Next ==
    \/ \E req \in Requests : Call("c1", req) /\ UNCHANGED rest
    \/ \E resp \in ProviderResponses : Respond("c1", resp) /\ UNCHANGED rest
    \/ Wake("c1") /\ UNCHANGED rest
    \/ Tick /\ UNCHANGED rest

Spec == Init /\ [][Next]_vars

\* Two callers sharing the gateway, with gemini or openai configured; their
\* calls overlap.
InitConc ==
    /\ Init
    /\ active_provider \in {"gemini", "openai"}
    /\ api_key[active_provider]

\* The requests and the responses of the overlapping calls: two prompts with
\* one fingerprint; a success, a retryable and a fatal failure.
ConcRequests == {r \in Requests : r.prompt \in {PromptA, PromptB}}

ConcResponses ==
    {r \in ProviderResponses :
        \/ r.body = "ok"
        \/ r.status \in {429, 500} /\ r.body = "error"
        \/ r.body = "ReadTimeout"}

ConcCallers == {"c1", "c2"}

NextConc ==
    \/ \E c \in ConcCallers, req \in ConcRequests : Call(c, req) /\ UNCHANGED rest
    \/ \E c \in ConcCallers, resp \in ConcResponses : Respond(c, resp) /\ UNCHANGED rest
    \/ \E c \in ConcCallers : Wake(c) /\ UNCHANGED rest

SpecConc == InitConc /\ [][NextConc]_vars

\* One caller of generate_content and the clients of the switch route.
NextSwitch ==
    \/ \E req \in ConcRequests : Call("c1", req) /\ UNCHANGED rest
    \/ \E resp \in ConcResponses : Respond("c1", resp) /\ UNCHANGED rest
    \/ Wake("c1") /\ UNCHANGED rest
    \/ \E name \in EnvActive : SwitchRoute(name) /\ UNCHANGED <<val, hcache, got, hum, batch, ext>>

SpecSwitch == Init /\ [][NextSwitch]_vars

\* One caller whose requests differ in one part of the fingerprint at a time,
\* over a configured gemini or openai provider.
KeyRequests ==
    { [prompt |-> PromptA, max_tokens |-> 1000, temperature |-> "0.7"],
      [prompt |-> PromptB, max_tokens |-> 1000, temperature |-> "0.7"],
      [prompt |-> PromptA, max_tokens |-> 2000, temperature |-> "0.7"],
      [prompt |-> PromptA, max_tokens |-> 1000, temperature |-> "0.3"],
      [prompt |-> PromptD, max_tokens |-> 2000, temperature |-> "0.3"],
      [prompt |-> PromptColon, max_tokens |-> 2000, temperature |-> "0.3"] }

KeyResponses == {r \in ProviderResponses : r.body = "ok" \/ (r.status = 429 /\ r.body = "error")}

NextKey ==
    \/ \E req \in KeyRequests : Call("c1", req) /\ UNCHANGED rest
    \/ \E resp \in KeyResponses : Respond("c1", resp) /\ UNCHANGED rest

SpecKey == InitConc /\ [][NextKey]_vars

\* One caller, whose provider requests and sleeps all complete.
NextLive ==
    \/ \E req \in ConcRequests : Call("c1", req) /\ UNCHANGED rest
    \/ \E resp \in ConcResponses : Respond("c1", resp) /\ UNCHANGED rest
    \/ Wake("c1") /\ UNCHANGED rest

\* The provider request in flight completes (httpx gives a response or
\* raises within its timeouts) and the sleep returns.
Completes ==
    /\ WF_vars(\E resp \in ConcResponses : Respond("c1", resp) /\ UNCHANGED rest)
    /\ WF_vars(Wake("c1") /\ UNCHANGED rest)

SpecLive == Init /\ [][NextLive]_vars /\ Completes

\* The validation of each candidate against each source text.
InitValidator ==
    /\ InitGateway
    /\ switch_result = NoSwitch
    /\ hcache = <<>>
    /\ got = NoGot
    /\ hum = [c \in Callers |-> IdleHum]
    /\ batch = IdleBatch
    /\ ext = NoExt
    /\ \E text \in ValSources, response \in ValCandidates :
          val = [NoVal EXCEPT !.op = "input", !.text = text, !.response = response]

NextValidator ==
    \/ RunValidate /\ UNCHANGED <<gateway, switch_result, hcache, got, hum, batch, ext>>
    \/ RunIsValidOutput /\ UNCHANGED <<gateway, switch_result, hcache, got, hum, batch, ext>>

SpecValidator == InitValidator /\ [][NextValidator]_vars

\* One caller of humanize, awaiting each call before it makes the next.
HumTexts == {SourceGato, SourceCasa, ShortText}

\* What the provider answers a humanize request with: a rewrite that is
\* valid for one of the texts, a refusal, a blank text, a truncated text, or
\* a failure.
HumResponses ==
       { [kind |-> "http", status |-> 200, body |-> "ok", text |-> t] :
             t \in {CandRewrite, CandKeysMoved, CandConnector, CandRefusalEs,
                    CandBlank, CandHalf} }
  \cup { [kind |-> "http", status |-> s, body |-> "error", text |-> ""] : s \in {429, 500} }
  \cup { [kind |-> "transport", status |-> 0, body |-> "ReadTimeout", text |-> ""] }

NextHumanize ==
    \/ \E text \in HumTexts : Humanize("c1", text)
    \/ \E resp \in HumResponses : HRespond("c1", resp)
    \/ HWake("c1")
    \/ Tick /\ UNCHANGED rest

SpecHumanize == Init /\ [][NextHumanize]_vars

\* Batches of three texts or fewer over a configured gemini provider.
InitBatch ==
    /\ Init
    /\ active_provider = "gemini"
    /\ api_key["gemini"]

BatchInputs ==
    { <<SourceGato, SourceCasa, SourcePerro>>,
      <<SourceCasa, ShortText>>,
      <<>> }

\* A rewrite that is valid for each text and a failure that is not retried,
\* for every item; a failure that is retried, for the second item.
BatchResponses(c) ==
       { [kind |-> "http", status |-> 200, body |-> "ok", text |-> t] :
             t \in {CandRewrite, CandKeysMoved, CandOtherTopic} }
  \cup { [kind |-> "http", status |-> 429, body |-> "error", text |-> ""] }
  \cup (IF c = "c2"
        THEN { [kind |-> "http", status |-> 500, body |-> "error", text |-> ""] }
        ELSE {})

NextBatch ==
    \/ \E contents \in BatchInputs : HumanizeBatch(contents)
    \/ \E c \in Callers : \E resp \in BatchResponses(c) : HRespond(c, resp)
    \/ \E c \in Callers : HWake(c)
    \/ BatchCollect

SpecBatch == InitBatch /\ [][NextBatch]_vars

\* The cache on its own, holding Prefill entries stored at time 0.
Prefill == 999

\* The texts looked up and the texts stored: an old entry and new ones.
GetKeys == {1, Prefill + 2}
SetKeys == {Prefill + 1, Prefill + 2}

InitCache ==
    /\ InitGateway
    /\ active_provider = "gemini"
    /\ \A p \in ProviderNames : api_key[p]
    /\ switch_result = NoSwitch
    /\ val = NoVal
    /\ hcache = [k \in {HCacheKey(FillerText(n)) : n \in 1..Prefill} |->
                    Entry(NoResult, 0)]
    /\ got = NoGot
    /\ hum = [c \in Callers |-> IdleHum]
    /\ batch = IdleBatch
    /\ ext = NoExt

NextCache ==
    \/ \E n \in GetKeys : HGet(n) /\ UNCHANGED <<gateway, switch_result, val, hum, batch, ext>>
    \/ \E n \in SetKeys : HSet(n) /\ UNCHANGED <<gateway, switch_result, val, hum, batch, ext>>
    \/ Tick /\ UNCHANGED rest

SpecCache == InitCache /\ [][NextCache]_vars

\* The extraction from each response at each call site, and again from what
\* the first extraction gave.
InitExtractor ==
    /\ InitGateway
    /\ switch_result = NoSwitch
    /\ val = NoVal
    /\ hcache = <<>>
    /\ got = NoGot
    /\ hum = [c \in Callers |-> IdleHum]
    /\ batch = IdleBatch
    /\ \E site \in Sites, response \in ExtResponses :
          ext = [NoExt EXCEPT !.op = "input", !.site = site, !.response = response]

NextExtractor ==
    \/ RunExtract /\ UNCHANGED <<gateway, switch_result, val, hcache, got, hum, batch>>
    \/ RunExtractAgain /\ UNCHANGED <<gateway, switch_result, val, hcache, got, hum, batch>>

SpecExtractor == InitExtractor /\ [][NextExtractor]_vars

----------------------------------------------------------------------------
(* Vocabulary of the claims *)

InFlight(t) == t.pc \in {"awaiting", "sleeping"}

\* The synthesized gateway timeout: status 504, wrapping the last failure.
IsGatewayTimeout(o) ==
    o.kind = "error" /\ o.exc = "HTTPException" /\ o.status = 504
        /\ o.detail = "gateway_timeout"

\* Two prompts agree on their first 100 characters.
SamePrefix(p, q) ==
    \A i \in 1..100 :
        /\ (i <= Len(p)) <=> (i <= Len(q))
        /\ (i <= Len(p)) => p[i] = q[i]

\* Request req has the fingerprint of the call recorded in t, under the
\* provider that is active now.
SameFingerprint(t, req) ==
    /\ t.cache_key[1] = active_provider
    /\ SamePrefix(t.request.prompt, req.prompt)
    /\ t.request.max_tokens = req.max_tokens
    /\ t.request.temperature = req.temperature

----------------------------------------------------------------------------
\* C1: a call whose every provider attempt came back with a 5xx status has
\* made exactly 5 provider calls, slept 3, 6, 12 and 24 seconds, and ended in
\* the gateway timeout.
C1_ServerErrorsExhaust ==
    \A c \in Callers :
        (task[c].pc = "done" /\ task[c].seen = {"5xx"}) =>
            /\ task[c].calls = 5
            /\ task[c].sleeps = <<3, 6, 12, 24>>
            /\ IsGatewayTimeout(task[c].outcome)

\* C2: a client error (a 4xx status, or a response without the success
\* shape) on the first attempt ends the call at once: one provider call, no
\* sleep, and the error raised in the try block reaches the caller as it was
\* raised, not as a server error and not as a gateway timeout.
C2_ClientErrorFatal ==
    [][\A c \in Callers, resp \in ProviderResponses :
         (Respond(c, resp) /\ task[c].attempt = 0
              /\ InputClass(resp) \in {"4xx", "malformed"}) =>
            /\ task'[c].pc = "done"
            /\ task'[c].calls = 1
            /\ task'[c].sleeps = <<>>
            /\ task'[c].outcome.kind = "error"
            /\ task'[c].outcome = TryBody(task[c].branch, resp)
            /\ task'[c].outcome.status < 500
            /\ task'[c].outcome.detail # "gateway_timeout"]_vars

C2_Witness ==
    \E c \in Callers :
        /\ task[c].pc = "done"
        /\ task[c].seen \in {{"4xx"}, {"malformed"}}
        /\ task[c].calls = 1
        /\ task[c].outcome.kind = "error"

\* C3: a call never makes more than 5 provider calls; while it runs, its
\* attempt index grows by exactly one with each provider call and never
\* shrinks, and a new call starts at attempt 0.
C3_CountsInvariant ==
    \A c \in Callers :
        /\ task[c].calls <= 5
        /\ task[c].attempt <= 4
        /\ InFlight(task[c]) => task[c].calls = task[c].attempt + 1

C3_CountsStep ==
    \A c \in Callers :
        /\ InFlight(task[c]) =>
              /\ task'[c].attempt \in {task[c].attempt, task[c].attempt + 1}
              /\ task'[c].calls - task[c].calls = task'[c].attempt - task[c].attempt
        /\ (~InFlight(task[c]) /\ task'[c] # task[c]) =>
              /\ task'[c].attempt = 0
              /\ task'[c].calls \in {0, 1}

C3_AttemptsBounded == []C3_CountsInvariant /\ [][C3_CountsStep]_vars

C3_Witness ==
    \E c \in Callers : task[c].pc = "done" /\ task[c].calls = 5 /\ task[c].attempt = 4

\* C4: every response with a 5xx status that arrives while attempts remain
\* puts the call to sleep for a retry.
C4_Every5xxRetried ==
    [][\A c \in Callers, resp \in ProviderResponses :
         (Respond(c, resp) /\ InputClass(resp) = "5xx" /\ task[c].attempt < 4) =>
            task'[c].pc = "sleeping"]_vars

\* C5: every transport failure is retried while attempts remain, after a
\* sleep of 3 * 2^attempt seconds; on the fifth attempt it ends the call in
\* the gateway timeout (504) that wraps it.
C5_TransportRetried ==
    [][\A c \in Callers, resp \in ProviderResponses :
         (Respond(c, resp) /\ resp.kind = "transport") =>
            IF task[c].attempt < 4
            THEN /\ task'[c].pc = "sleeping"
                 /\ task'[c].sleeps = Append(task[c].sleeps, 3 * 2^(task[c].attempt))
            ELSE /\ task'[c].pc = "done"
                 /\ IsGatewayTimeout(task'[c].outcome)
                 /\ task'[c].outcome.cause = resp.body]_vars

\* C6: when a caller's previous call returned a text and its next call has
\* the same fingerprint, the next call makes no provider call and returns
\* that same text.
C6_SecondCallHits ==
    [][\A c \in Callers, req \in Requests :
         (Call(c, req) /\ task[c].pc = "done" /\ task[c].outcome.kind = "ok"
              /\ SameFingerprint(task[c], req)) =>
            /\ task'[c].pc = "done"
            /\ task'[c].calls = 0
            /\ task'[c].outcome.kind = "ok"
            /\ task'[c].outcome.text = task[c].outcome.text]_vars

C6_Witness ==
    \E c \in Callers :
        /\ task[c].pc = "done"
        /\ task[c].calls = 0
        /\ task[c].outcome.kind = "ok"
        /\ task[c].cache_key \in DOMAIN cache

\* C7: a call that finds an entry stored at least TTL seconds ago does not
\* return it: it issues a fresh provider call.
C7_ExpiredEntryMisses ==
    [][\A c \in Callers, req \in Requests :
         LET key == CacheKey(active_provider, req)
         IN (Call(c, req) /\ key \in DOMAIN cache /\ now - created_at[key] >= cache_ttl) =>
               (task'[c].pc = "awaiting" /\ task'[c].calls = 1)]_vars

\* C8: the cache changes only in a step in which a provider call returns a
\* text to its caller, so a call that ends in an error has written nothing;
\* and the call that follows a failed call with the same fingerprint issues a
\* provider call.
C8_CacheStep ==
    /\ cache' # cache =>
          \E c \in Callers :
              /\ task[c].pc = "awaiting"
              /\ task'[c].pc = "done"
              /\ task'[c].outcome.kind = "ok"
              /\ cache' = (task[c].cache_key :> task'[c].outcome.text) @@ cache
    /\ \A c \in Callers, req \in Requests :
          (Call(c, req) /\ task[c].pc = "done" /\ task[c].outcome.kind = "error"
               /\ task[c].calls >= 1 /\ SameFingerprint(task[c], req)) =>
             (task'[c].pc = "awaiting" /\ task'[c].calls = 1)

C8_FailuresNotCached == [][C8_CacheStep]_vars

C8_Witness ==
    \E c \in Callers :
        /\ task[c].pc = "done"
        /\ task[c].outcome.kind = "error"
        /\ task[c].calls = 5
        /\ task[c].cache_key \notin DOMAIN cache
        /\ cache # <<>>

\* C9 (as stated): no two provider calls are in flight for one fingerprint.
C9_OneInFlight ==
    \A c, d \in Callers :
        (c # d /\ task[c].pc = "awaiting" /\ task[d].pc = "awaiting") =>
            task[c].cache_key # task[d].cache_key

\* C9 (amended): a call issues a provider call only when, at its start, the
\* cache holds no entry for its fingerprint; overlapping calls are not
\* de-duplicated.
C9_CallOnlyOnMiss ==
    [][\A c \in Callers :
         (~InFlight(task[c]) /\ InFlight(task'[c])) =>
            task'[c].cache_key \notin DOMAIN cache]_vars

C9_Witness ==
    \E c, d \in Callers :
        /\ c # d
        /\ task[c].pc = "awaiting" /\ task[d].pc = "awaiting"
        /\ task[c].cache_key = task[d].cache_key

\* C10: with a registered provider active and its credential configured, a
\* call that misses the cache issues a provider call: it does not fail
\* without having called the provider.
C10_ConfiguredProviderCalled ==
    \A c \in Callers :
        (task[c].pc = "done" /\ task[c].outcome.kind = "error"
             /\ active_provider \in ProviderNames /\ api_key[active_provider]) =>
            task[c].calls >= 1

\* C11: when the active provider is not registered or has no credential, a
\* call that misses the cache ends at once in the configuration error, with
\* no provider call and no sleep; the cache and the active provider are as
\* before.
C11_ConfigError ==
    [][\A c \in Callers, req \in Requests :
         LET key == CacheKey(active_provider, req)
         IN (Call(c, req) /\ key \notin DOMAIN cache
                /\ (active_provider \notin ProviderNames \/ ~api_key[active_provider])) =>
               /\ task'[c].pc = "done"
               /\ task'[c].outcome.kind = "error"
               /\ task'[c].outcome.exc = "ValueError"
               /\ task'[c].calls = 0
               /\ task'[c].sleeps = <<>>
               /\ cache' = cache
               /\ active_provider' = active_provider]_vars

C11_Witness ==
    \E c \in Callers :
        /\ task[c].pc = "done"
        /\ task[c].outcome.exc = "ValueError"
        /\ task[c].calls = 0
        /\ active_provider \in ProviderNames
        /\ ~api_key[active_provider]

\* C12: a switch request naming a registered provider succeeds and makes it
\* the active provider; one naming an unregistered provider fails with the
\* unknown-provider error (ValueError) and leaves the active provider as it
\* was.
C12_SwitchActive ==
    [][\A name \in EnvActive :
         SwitchRoute(name) =>
            IF name \in ProviderNames
            THEN active_provider' = name /\ switch_result'.exc = None
            ELSE active_provider' = active_provider
                    /\ switch_result'.exc = "ValueError"]_vars

----------------------------------------------------------------------------
(* The humanizer's cache *)

\* C15: a get returns the entry exactly when now - timestamp < TTL; on an
\* entry with now - timestamp >= TTL it returns a miss and deletes that entry,
\* and no other; a get never returns an entry that is not valid.
C15_GetHonoursTTL ==
    [][\A n \in GetKeys :
         HGet(n) =>
            LET key == HCacheKey(FillerText(n))
            IN IF key \in DOMAIN hcache /\ now - hcache[key].timestamp < cache_ttl
               THEN got'.hit /\ got'.data = hcache[key].data /\ hcache' = hcache
               ELSE /\ ~got'.hit
                    /\ key \notin DOMAIN hcache'
                    /\ \A k \in DOMAIN hcache \ {key} :
                          k \in DOMAIN hcache' /\ hcache'[k] = hcache[k]]_vars

C15_Witness ==
    /\ got.op = "get"
    /\ got.found
    /\ got.age >= cache_ttl
    /\ ~got.hit
    /\ got.key \notin DOMAIN hcache
    /\ hcache # <<>>

\* C16: when a put leaves the cache with more than 1000 entries, the sweep
\* deletes every entry with now - timestamp >= TTL, so none remains after the
\* put, and deletes no entry with now - timestamp < TTL.
C16_SweepRemovesExpired ==
    [][\A n \in SetKeys :
         HSet(n) =>
            LET key == HCacheKey(FillerText(n))
            IN Cardinality(DOMAIN hcache \cup {key}) > sweep_threshold =>
                 /\ \A k \in DOMAIN hcache' : now - hcache'[k].timestamp < cache_ttl
                 /\ \A k \in DOMAIN hcache \ {key} :
                       now - hcache[k].timestamp < cache_ttl =>
                          k \in DOMAIN hcache' /\ hcache'[k] = hcache[k]]_vars

----------------------------------------------------------------------------
(* humanize *)

\* the step ends the gateway call of caller c
GatewayEnds(c) == task'[c] # task[c] /\ task'[c].pc = "done"

\* the step ends the humanize call of caller c
HumanizeEnds(c) == hum'[c] # hum[c] /\ hum'[c].pc = "done"

\* the gateway call ended with a text that humanize does not take: empty, a
\* refusal, or rejected by the validation
Unusable(text, response) ==
    \/ Strip(response) = <<>>
    \/ Refused(response)
    \/ ~IsValidOutput(text, Strip(response)).valid

\* C14: humanize never raises; when the gateway call fails, or returns a
\* response that is empty, a refusal or rejected by the validation, humanize
\* returns applied = False with the original text as humanized and a reason,
\* and adds or changes no entry of the humanizer cache.
C14_FailureIsData ==
    [][\A c \in Callers :
         HumanizeEnds(c) =>
            /\ hum'[c].raised = None
            /\ (GatewayEnds(c) /\
                    (\/ task'[c].outcome.kind = "error"
                     \/ Unusable(hum'[c].text, task'[c].outcome.text))) =>
                  /\ ~hum'[c].result.applied
                  /\ hum'[c].result.original = hum'[c].text
                  /\ hum'[c].result.humanized = hum'[c].text
                  /\ hum'[c].result.reason # None
                  /\ \A k \in DOMAIN hcache' :
                        k \in DOMAIN hcache /\ hcache'[k] = hcache[k]]_vars

C14_Witness ==
    /\ hum["c1"].pc = "done"
    /\ task["c1"].pc = "done"
    /\ task["c1"].calls = max_retries
    /\ task["c1"].outcome.kind = "error"
    /\ ~hum["c1"].result.applied
    /\ hum["c1"].result.humanized = hum["c1"].text
    /\ hum["c1"].result.reason = "HTTPException"
    /\ hum["c1"].text = SourceGato
    /\ HCacheKey(SourceGato) \notin DOMAIN hcache

----------------------------------------------------------------------------
(* humanize_batch *)

\* what humanize(text) returns when its gateway call ends with outcome,
\* whatever the caches hold and whatever the other calls do
OwnResult(text, outcome) ==
    Finish([IdleHum EXCEPT !.text = text, !.called = TRUE], outcome, <<>>, 0).hum.result

\* C13: humanize_batch starts the humanize call of every text before any of
\* them completes; it returns one result per text, in the order of the
\* texts; a step of one item's provider call, a failure included, changes
\* nothing of the other items' calls; an item whose gateway call failed is
\* reported with applied = False and its original text, and every item that
\* called the gateway has the result that its own text and its own gateway
\* outcome give.
C13_BatchPerItem ==
    [][/\ \A contents \in BatchInputs :
            HumanizeBatch(contents) =>
                \A i \in 1..Len(contents) :
                    /\ hum'[BatchCallers[i]].text = contents[i]
                    /\ hum'[BatchCallers[i]].pc \in {"waiting", "done"}
       /\ \A c \in Callers : \A resp \in BatchResponses(c) :
            HRespond(c, resp) =>
                \A d \in Callers \ {c} : hum'[d] = hum[d] /\ task'[d] = task[d]
       /\ BatchCollect =>
            /\ Len(batch'.processed) = Len(batch.contents)
            /\ \A i \in 1..Len(batch.contents) :
                 LET c == BatchCallers[i]
                     r == batch'.processed[i]
                 IN /\ r.original = batch.contents[i]
                    /\ hum[c].called =>
                          /\ r = OwnResult(batch.contents[i], task[c].outcome)
                          /\ task[c].outcome.kind = "error" =>
                                ~r.applied /\ r.humanized = batch.contents[i]]_vars

C13_Witness ==
    /\ batch.pc = "done"
    /\ batch.contents = <<SourceGato, SourceCasa, SourcePerro>>
    /\ Len(batch.processed) = 3
    /\ batch.processed[1].applied /\ batch.processed[1].original = SourceGato
    /\ ~batch.processed[2].applied /\ batch.processed[2].humanized = SourceCasa
    /\ batch.processed[3].applied /\ batch.processed[3].original = SourcePerro
    /\ task["c2"].calls = max_retries
    /\ task["c2"].outcome.kind = "error"

----------------------------------------------------------------------------
(* The validation of a response *)

\* |words(source) & words(candidate)| and |words(source)|
CommonWords(text, response) == Cardinality(WordSet(text) \cap WordSet(response))
SourceWords(text) == Cardinality(WordSet(text))

\* the candidate keeps every key term of a source that has some
KeepsAllKeyTerms(text, response) ==
    /\ ExtractKeyTerms(text) # {}
    /\ ExtractKeyTerms(text) \subseteq ExtractKeyTerms(response)

\* C17: a response that contains a refusal phrase, in any letter case, is
\* rejected with the reason "refused" (the ValueError "LLM refused to
\* process"); so is the response "I'm sorry, I cannot help with that.",
\* whatever the source text.
C17_RefusalRejected ==
    val.op = "validate" =>
        /\ (\E pat \in REFUSAL_PATTERNS : Contains(ToLower(val.response), pat)) =>
               ~val.out.accepted /\ val.out.reason = "LLM refused to process"
        /\ val.response = CandRefusalEn =>
               ~val.out.accepted /\ val.out.reason = "LLM refused to process"

\* C18: _is_valid_output rejects a candidate whose length is less than 0.6 of
\* the source's, does not reject for length one whose length is at least 0.6
\* of it, and rejects as too_short a (non-blank) candidate of half the
\* source's length; a response that humanize accepts has, once stripped, at
\* least 0.6 of the source's length.
C18_LengthRatio ==
    /\ (val.op = "is_valid_output" /\ Len(val.text) > 0) =>
        /\ 10 * Len(val.response) < 6 * Len(val.text) => ~val.out.accepted
        /\ 10 * Len(val.response) >= 6 * Len(val.text) => val.out.tag # "too_short"
        /\ (2 * Len(val.response) = Len(val.text) /\ Strip(val.response) # <<>>) =>
               ~val.out.accepted /\ val.out.tag = "too_short"
    /\ (val.op = "validate" /\ val.out.accepted) =>
        10 * Len(val.out.humanized) >= 6 * Len(val.text)

C18_Witness ==
    /\ val.op = "is_valid_output"
    /\ 2 * Len(val.response) = Len(val.text)
    /\ ~val.out.accepted
    /\ val.out.tag = "too_short"

\* C19: for a source without key terms, a candidate that passes the length
\* test is accepted exactly when its general overlap is at least 0.5.
C19_FallbackSameThreshold ==
    (/\ val.op = "is_valid_output"
     /\ WordSet(val.text) # {}
     /\ ExtractKeyTerms(val.text) = {}
     /\ Strip(val.response) # <<>>
     /\ 10 * Len(val.response) >= 6 * Len(val.text)) =>
        (val.out.accepted <=>
            2 * CommonWords(val.text, val.response) >= SourceWords(val.text))

\* C20 as stated: a candidate that keeps every key term of the source is
\* accepted.
C20_KeyTermsPreservedAccepted ==
    (val.op = "is_valid_output" /\ KeepsAllKeyTerms(val.text, val.response)) =>
        val.out.accepted

\* C20: a candidate that keeps every key term of the source is accepted when
\* it also has at least 0.6 of the source's length and a general overlap of at
\* least 0.5, in whatever order its words come.
C20_KeyTermsPreservedAcceptedIfOverlap ==
    (/\ val.op = "is_valid_output"
     /\ KeepsAllKeyTerms(val.text, val.response)
     /\ 10 * Len(val.response) >= 6 * Len(val.text)
     /\ 2 * CommonWords(val.text, val.response) >= SourceWords(val.text)) =>
        val.out.accepted

C20_Witness ==
    /\ val.op = "is_valid_output"
    /\ KeepsAllKeyTerms(val.text, val.response)
    /\ Split(ToLower(val.response)) # Split(ToLower(val.text))
    /\ Head(Split(ToLower(val.response))) # Head(Split(ToLower(val.text)))
    /\ val.out.accepted

----------------------------------------------------------------------------
(* The extraction of a JSON object *)

\* the response holds no fence and no brace
NoFence(s) == ~Contains(s, Fence)
NoBraces(s) == ~Contains(s, <<"{">>) /\ ~Contains(s, <<"}">>)

\* the dict that the text from the first "{" to the last "}" spells, if any
SpanObject(s) ==
    IF BraceSearchGreedy(s).found THEN Loads(BraceSearchGreedy(s).group)
    ELSE [ok |-> FALSE, val |-> JNone]

\* the dict inside the first JSON fence of the response, if any
FencedObject(s) ==
    IF FenceSearch(s).found THEN Loads(FenceSearch(s).group)
    ELSE [ok |-> FALSE, val |-> JNone]

\* C21: at every call site, from a response without a fence the extraction
\* gives the dict spelled by the text from the first "{" to the last "}".
C21_BraceSpanParsed ==
    (/\ ext.op = "extract"
     /\ NoFence(ext.response)
     /\ SpanObject(ext.response).ok)
    => ext.out.data = SpanObject(ext.response).val

\* C22: from a response without braces, or whose text from the first "{" to
\* the last "}" is not JSON, the extraction raises nothing and gives a text
\* and a note instead of a dict.
C22_FailureNeverThrows ==
    (/\ ext.op = "extract"
     /\ NoBraces(ext.response) \/ ~SpanObject(ext.response).ok)
    => /\ ext.out.raised = None
       /\ ext.out.text.t = "str"
       /\ ext.out.note.t = "str"

\* C23: when the response wraps a dict in a JSON fence and the extraction
\* gave a dict, the extraction from the serialized form of that dict raises
\* nothing and gives the same dict.
C23_Idempotent ==
    (/\ ext.op = "again"
     /\ FencedObject(ext.response).ok
     /\ FencedObject(ext.response).val.t = "obj")
    => /\ ext.again.raised = None
       /\ ext.again.data = ext.out.data

C23_Witness ==
    /\ ext.op = "again"
    /\ ext.site = "optimize_for_platform"
    /\ ext.response = RespFenceInText
    /\ ext.out.data = FencedObject(ext.response).val
    /\ ext.again.data = ext.out.data
    /\ ext.again.text = JStr(Dumps(ext.out.data))

----------------------------------------------------------------------------
\* C24: a call whose request agrees with the request of a cache entry on the
\* provider, the first 100 characters of the prompt, max_tokens and
\* temperature returns the text of that entry without a provider call, also
\* when the prompts differ after character 100; a call whose request differs
\* from it in the provider, max_tokens or temperature has another key.
C24_Fingerprint ==
    [][\A c \in Callers, p \in ProviderNames, stored \in KeyRequests, req \in KeyRequests :
         (Call(c, req) /\ CacheKey(p, stored) \in DOMAIN cache) =>
            /\ (/\ p = active_provider
                /\ SamePrefix(stored.prompt, req.prompt)
                /\ stored.max_tokens = req.max_tokens
                /\ stored.temperature = req.temperature)
               => /\ task'[c].pc = "done"
                  /\ task'[c].calls = 0
                  /\ task'[c].outcome = Returned(cache[CacheKey(p, stored)])
            /\ (\/ p # active_provider
                \/ stored.max_tokens # req.max_tokens
                \/ stored.temperature # req.temperature)
               => task'[c].cache_key # CacheKey(p, stored)]_vars

\* the second of two prompts that differ after character 100 was answered
\* from the entry of the first, while entries for the same prompt with
\* another max_tokens and another temperature exist beside it
C24_Witness ==
    /\ task["c1"].pc = "done"
    /\ task["c1"].request.prompt = PromptB
    /\ task["c1"].calls = 0
    /\ task["c1"].outcome.kind = "ok"
    /\ \E r1, r2, r3 \in KeyRequests :
          /\ r1.prompt = PromptA /\ r2.prompt = PromptA /\ r3.prompt = PromptA
          /\ r1.max_tokens # r2.max_tokens
          /\ r1.temperature # r3.temperature
          /\ {CacheKey(active_provider, r) : r \in {r1, r2, r3}} \subseteq DOMAIN cache
          /\ task["c1"].cache_key = CacheKey(active_provider, r1)
          /\ cache[CacheKey(active_provider, r1)] # cache[CacheKey(active_provider, r2)]

----------------------------------------------------------------------------
(* The provider pointer and the calls in flight *)

\* the providers that generate_content has a request format for
Formats == {"gemini", "openai"}

\* C25: after a switch to a provider made while a call is suspended in a
\* provider request or in a retry sleep, the next attempt of that call is
\* built in the format of the provider switched to.
C25_SwitchSeenByAttempts ==
    [][\A c \in Callers, name \in Formats :
         (SwitchRoute(name) /\ InFlight(task[c])) =>
            (Iteration(task[c], task[c].attempt + 1).branch = name)']_vars

C27_TransientAbsorbed ==
    \A c \in Callers :
        (task[c].pc = "done" /\ task[c].seen # {}
             /\ task[c].seen \subseteq {"transport", "5xx", "success"}) =>
           IF "success" \in task[c].seen
           THEN /\ task[c].outcome.kind = "ok"
                /\ task[c].cache_key \in DOMAIN cache
                /\ cache[task[c].cache_key] = task[c].outcome.text
                /\ Len(task[c].sleeps) = task[c].calls - 1
           ELSE task[c].calls = 5

\* C29: no step changes the registry; a step of generate_content leaves the
\* provider pointer unchanged and changes the cache only by storing the text
\* it returns under its own key; a switch request leaves the cache and the
\* calls unchanged.
C29_Frames ==
    [][/\ api_key' = api_key
       /\ \A c \in Callers :
            task'[c] # task[c] =>
               /\ active_provider' = active_provider
               /\ \/ cache' = cache
                  \/ /\ task'[c].outcome.kind = "ok"
                     /\ task'[c].cache_key = task[c].cache_key
                     /\ cache' = (task[c].cache_key :> task'[c].outcome.text) @@ cache
       /\ (\E name \in EnvActive : SwitchRoute(name)) =>
               /\ cache' = cache
               /\ created_at' = created_at
               /\ task' = task
       /\ cache' # cache => \E c \in Callers : task'[c] # task[c]]_vars

\* a call has stored its text after retries, a later call is in flight, and
\* a switch was requested
C29_Witness ==
    /\ switch_result.status = 500
    /\ cache # <<>>
    /\ \E key \in DOMAIN cache : key[1] = active_provider
    /\ task["c1"].pc = "done"
    /\ task["c1"].calls = 0
    /\ task["c1"].outcome = Returned(cache[task["c1"].cache_key])

----------------------------------------------------------------------------
\* C28: when a humanize call follows one for another text and reaches the
\* gateway, its request is not answered from the gateway cache: a provider
\* request is made for it (or the call fails).
C28_OwnGeneration ==
    [][\A c \in Callers, text \in HumTexts :
         (Humanize(c, text) /\ hum[c].pc = "done" /\ hum[c].text # <<>>
              /\ hum[c].text # text /\ hum'[c].called) =>
            ~(/\ task'[c].pc = "done"
              /\ task'[c].calls = 0
              /\ task'[c].outcome.kind = "ok")]_vars

----------------------------------------------------------------------------
\* has the call ended with a text or with an error
Ended(t) == t.pc = "done" /\ t.outcome.kind \in {"ok", "error"}

\* C30: when every provider request and every sleep completes, a call in
\* flight ends, after 5 provider calls at most, with a text or with an error;
\* no call ends with neither.
C30_Terminates ==
    /\ \A c \in Callers : InFlight(task[c]) ~> (Ended(task[c]) /\ task[c].calls <= 5)
    /\ [](\A c \in Callers : task[c].pc = "done" => Ended(task[c]))

\* a call ended with the gateway timeout after its fifth provider call
C30_Witness ==
    /\ Ended(task["c1"])
    /\ task["c1"].calls = 5
    /\ Len(task["c1"].sleeps) = 4
    /\ IsGatewayTimeout(task["c1"].outcome)
    /\ task["c1"].outcome.cause = "ReadTimeout"

====
